---- MODULE Spec2Model ----
(***************************************************************************)
(* A model of apidGatewayConfDeploy: the storage queries of data.go (the   *)
(* readiness resolver and the blob fetch tracker) and the change           *)
(* distributor and GET /configurations handler of api.go.                  *)
(*                                                                         *)
(* SpecData exercises the dbManager calls over arbitrary small tables.     *)
(* Spec runs the goroutines of api.go (debounce, distributeEvents, its     *)
(* delivery goroutines and the request handlers) over a fixed              *)
(* configuration table.                                                    *)
(***************************************************************************)
EXTENDS Integers, Sequences, FiniteSets, TLC

(***************************************************************************)
(* Bounds of the model                                                     *)
(***************************************************************************)
\* number of GET /configurations requests of one run (each request id is used once)
NumRequests == 2
\* number of change events (blob download completions) of one run
MaxEvents == 2
\* number of rows of metadata_runtime_entity_metadata in SpecData
MaxConfigs == 2

(***************************************************************************)
(* Program constants                                                       *)
(***************************************************************************)
\* deploymentsChanged = make(chan interface{}, 5)
DeploymentsChangedCap == 5
\* deliverDeployments := make(chan []interface{}, 1)
DeliverDeploymentsCap == 1
\* newDeploymentsChannel = make(chan deploymentsResult, 1)
SubscriberChanCap == 1
\* http.StatusOK, http.StatusNotModified, http.StatusBadRequest, http.StatusInternalServerError
StatusOK == 200
StatusNotModified == 304
StatusBadRequest == 400
StatusInternalServerError == 500
StatusNotFound == 404

VARIABLES
    \* ---- storage (data.go) ----
    configs,            \* rows of metadata_runtime_entity_metadata
    blobAvailable,      \* table apid_blob_available: id -> local_fs_location
    dbResult,           \* the most recent dbManager call and what it returned
    firstPath,          \* history: the path given by the first updateLocalFsLocation of each id
    \* ---- api.go globals and goroutines ----
    eTag,               \* var eTag int64
    deploymentsChanged, \* chan interface{} (buffered)
    toSend,             \* debounce: var toSend []interface{}
    debouncePc,         \* debounce: "select" or "send" (blocked in out <- toSend)
    deliverDeployments, \* chan []interface{} (buffered, 1)
    subscribers,        \* distributeEvents: map[chan deploymentsResult]struct{}
    tasks,              \* the delivery goroutines spawned by distributeEvents, in settle order
    req,                \* the request handlers (apiGetCurrentDeployments), one per request id
    chan,               \* newDeploymentsChannel of each request: its buffer
    delivered,          \* history: every deploymentsResult ever written to each channel
    responses,          \* what each request wrote to its http.ResponseWriter
    nEvents,            \* number of change events recorded so far
    typeParams,         \* the values of the type parameter the clients of the run send
    blobParams          \* the blob ids the clients of the run ask for with GET /blob/{blobId}

dataVars == <<configs, blobAvailable, dbResult, firstPath>>
apiVars == <<eTag, deploymentsChanged, toSend, debouncePc, deliverDeployments,
             subscribers, tasks, req, chan, delivered, responses, nEvents, typeParams, blobParams>>
vars == <<configs, blobAvailable, dbResult, firstPath,
          eTag, deploymentsChanged, toSend, debouncePc, deliverDeployments,
          subscribers, tasks, req, chan, delivered, responses, nEvents, typeParams, blobParams>>

(***************************************************************************)
(* SQL values.  A text column holds a string or NULL; NULL is modelled by  *)
(* a sentinel that is no blob id, path or type of the model.               *)
(***************************************************************************)
SqlNull == "<NULL>"

IsNull(v) == v = SqlNull

\* blob ids that updateLocalFsLocation is called with (a Go string, never NULL)
DataBlobIds == {"b1", "b2"}
\* local paths
Paths == {"/p1", "/p2"}
\* what a bean_blob_id / resource_blob_id column can hold
BlobColumn == <<SqlNull, "", "b1", "b2">>
Types == <<"ORGANIZATION", "ENVIRONMENT">>

\* a row of metadata_runtime_entity_metadata (the columns the queries read)
Row(id, bean, res, type) ==
    [id |-> id, bean_blob_id |-> bean, resource_blob_id |-> res, type |-> type]

\* the contents of a row, numbered: bean, resource and type in mixed radix
RowCodes == 0 .. (Len(BlobColumn) * Len(BlobColumn) * Len(Types) - 1)

RowOf(i, code) ==
    Row(ToString(i),
        BlobColumn[(code % Len(BlobColumn)) + 1],
        BlobColumn[((code \div Len(BlobColumn)) % Len(BlobColumn)) + 1],
        Types[(code \div (Len(BlobColumn) * Len(BlobColumn))) + 1])

\* every table of at most MaxConfigs rows with the primary key id unique.  The
\* queries treat ids uniformly, so one table is taken for each multiset of row
\* contents: row i holds contents no greater than row i+1.
ConfigTables ==
    UNION {{{RowOf(i, f[i]) : i \in 1 .. n} :
                f \in {g \in [1 .. n -> RowCodes] :
                          \A i \in 1 .. n : \A j \in 1 .. n : i < j => g[i] <= g[j]}} :
           n \in 0 .. MaxConfigs}

\* the empty apid_blob_available table
EmptyTable == [x \in {} |-> ""]

NoResult == [op |-> "none"]

(***************************************************************************)
(* data.go: structFromRows.  A NULL column leaves the struct field at its  *)
(* zero value "".                                                          *)
(***************************************************************************)
NullString(v) == IF IsNull(v) THEN "" ELSE v

structFromRows(rows) ==
    {[ID |-> a.id, BlobID |-> NullString(a.bean_blob_id),
      BlobResourceID |-> NullString(a.resource_blob_id), Type |-> a.type] : a \in rows}

(***************************************************************************)
(* data.go: getReadyDeployments.  The id sub-select is                     *)
(*   (X INTERSECT Y) UNION Z                                               *)
(* (compound selects group left to right); an INNER JOIN ... ON a.col =    *)
(* b.id matches no row when a.col is NULL.                                 *)
(***************************************************************************)
JoinsAvailable(v, table) == ~IsNull(v) /\ v \in DOMAIN table

ReadyIds_BeanOnly(rows, table) ==
    {a.id : a \in {x \in rows : JoinsAvailable(x.bean_blob_id, table)}}

ReadyIds(rows, table) ==
    LET X == {a.id : a \in {x \in rows :
                  /\ JoinsAvailable(x.resource_blob_id, table)
                  /\ ~IsNull(x.resource_blob_id) /\ x.resource_blob_id # ""}}
        Y == {a.id : a \in {x \in rows :
                  /\ JoinsAvailable(x.bean_blob_id, table)
                  /\ ~IsNull(x.resource_blob_id) /\ x.resource_blob_id # ""}}
        Z == {a.id : a \in {x \in rows :
                  /\ JoinsAvailable(x.bean_blob_id, table)
                  /\ (IsNull(x.resource_blob_id) \/ x.resource_blob_id = "")}}
    IN  (X \cap Y) \cup Z

getReadyDeployments_FilterIgnored(rows, table, typeFilter) ==
    LET ids == ReadyIds(rows, table)
    IN  structFromRows({a \in rows : a.id \in ids})

getReadyDeployments(rows, table, typeFilter) ==
    LET ids == ReadyIds(rows, table)
    IN  IF typeFilter = ""
        THEN structFromRows({a \in rows : a.id \in ids})
        ELSE structFromRows({a \in rows : a.type = typeFilter /\ a.id \in ids})

(***************************************************************************)
(* data.go: getUnreadyBlobs.  x NOT IN (SELECT ...) is true over an empty  *)
(* sub-select, else NULL for a NULL x; the outer WHERE drops NULL and ''   *)
(* and UNION removes duplicates.                                           *)
(***************************************************************************)
NotInAvailable_In(v, table) ==
    IF DOMAIN table = {} THEN FALSE ELSE ~IsNull(v) /\ v \in DOMAIN table

NotInAvailable(v, table) ==
    IF DOMAIN table = {} THEN TRUE ELSE ~IsNull(v) /\ v \notin DOMAIN table

getUnreadyBlobs_KeepEmpty(rows, table) ==
    LET beans == {a.bean_blob_id : a \in {x \in rows : NotInAvailable(x.bean_blob_id, table)}}
        ress == {a.resource_blob_id : a \in {x \in rows : NotInAvailable(x.resource_blob_id, table)}}
    IN  {id \in beans \cup ress : ~IsNull(id)}

getUnreadyBlobs_BeanOnly(rows, table) ==
    LET beans == {a.bean_blob_id : a \in {x \in rows : NotInAvailable(x.bean_blob_id, table)}}
    IN  {id \in beans : ~IsNull(id) /\ id # ""}

getUnreadyBlobs(rows, table) ==
    LET beans == {a.bean_blob_id : a \in {x \in rows : NotInAvailable(x.bean_blob_id, table)}}
        ress == {a.resource_blob_id : a \in {x \in rows : NotInAvailable(x.resource_blob_id, table)}}
    IN  {id \in beans \cup ress : ~IsNull(id) /\ id # ""}

(***************************************************************************)
(* data.go: updateLocalFsLocation (INSERT OR IGNORE) and                   *)
(* getLocalFSLocation (no row: "", nil).                                   *)
(***************************************************************************)
\* the statement's effect: the table afterwards and whether Exec returned an error
InsertOrReplace(table, blobId, localFsLocation) ==
    [table |-> [x \in DOMAIN table \cup {blobId} |->
                   IF x = blobId THEN localFsLocation ELSE table[x]],
     err |-> FALSE]

InsertOrIgnore(table, blobId, localFsLocation) ==
    IF blobId \in DOMAIN table
    THEN [table |-> table, err |-> FALSE]
    ELSE [table |-> [x \in DOMAIN table \cup {blobId} |->
                        IF x = blobId THEN localFsLocation ELSE table[x]],
          err |-> FALSE]

getLocalFSLocation(table, blobId) ==
    IF blobId \in DOMAIN table THEN table[blobId] ELSE ""

(***************************************************************************)
(* data.go: getConfigById.  QueryRow and Scan: sql.ErrNoRows when no row    *)
(* has the id, the driver's error when the query fails, else the row as a  *)
(* Configuration (nil is the empty set here).                              *)
(***************************************************************************)
ErrNil == "nil"
ErrNoRows == "sql.ErrNoRows"
ErrStorage == "storage error"

\* CREATE TABLE [IF NOT EXISTS] apid_blob_available (...): a new table has no
\* row; creating a table that exists is an error unless IF NOT EXISTS is
\* given, and then the statement does nothing.
CreateTable(exists, table, ifNotExists) ==
    IF ~exists THEN [err |-> ErrNil, table |-> EmptyTable]
    ELSE IF ifNotExists THEN [err |-> ErrNil, table |-> table]
    ELSE [err |-> ErrStorage, table |-> table]

initDb_PlainCreate(exists, table, dbFails) ==
    IF dbFails THEN [err |-> ErrStorage, table |-> table]
    ELSE CreateTable(exists, table, FALSE)

\* initDb: Begin, Exec of CREATE TABLE IF NOT EXISTS, Commit; an error of any
\* of the three is returned and the deferred Rollback leaves the database as
\* it was.
initDb(exists, table, dbFails) ==
    IF dbFails THEN [err |-> ErrStorage, table |-> table]
    ELSE CreateTable(exists, table, TRUE)

\* the database of a dbManager in use has been initialised: the table exists
Initialised == TRUE

getConfigById_ErrorsMerged(rows, id, dbFails) ==
    LET found == {a \in rows : a.id = id}
    IN  IF dbFails \/ found = {} THEN [config |-> {}, err |-> ErrStorage]
        ELSE [config |-> structFromRows(found), err |-> ErrNil]

getConfigById(rows, id, dbFails) ==
    LET found == {a \in rows : a.id = id}
    IN  IF dbFails THEN [config |-> {}, err |-> ErrStorage]
        ELSE IF found = {} THEN [config |-> {}, err |-> ErrNoRows]
        ELSE [config |-> structFromRows(found), err |-> ErrNil]

\* the status GET /configurations/{id} answers for a result of getConfigById
configIdStatus(result) ==
    IF result.err = ErrNil THEN StatusOK
    ELSE IF result.err = ErrNoRows THEN StatusNotFound
    ELSE StatusInternalServerError

(***************************************************************************)
(* api.go: the version token                                               *)
(***************************************************************************)
\* strconv.FormatInt(e, 10)
FormatInt(e) == ToString(e)

getETag_Wraps(e) == FormatInt(e % 2)

\* getETag: atomic.LoadInt64 and FormatInt
getETag(e) == FormatInt(e)

\* incrementETag: atomic.AddInt64(&eTag, 1) and FormatInt; the new value of the
\* counter and the string returned
incrementETag_LoadOnly(e) == [value |-> e, ret |-> FormatInt(e)]

incrementETag_ReturnsOld(e) == [value |-> e + 1, ret |-> FormatInt(e)]

incrementETag(e) == [value |-> e + 1, ret |-> FormatInt(e + 1)]

\* strconv.Atoi on the values of the block parameter the model sends
BlockParams == {"", "0", "2", "-1", "x"}

Atoi(b) ==
    CASE b = "0" -> [err |-> FALSE, n |-> 0]
      [] b = "2" -> [err |-> FALSE, n |-> 2]
      [] b = "-1" -> [err |-> FALSE, n |-> 0 - 1]
      [] OTHER -> [err |-> TRUE, n |-> 0]

\* the If-None-Match values a client sends: none, or a version token issued so
\* far (the current one or a stale one)
IfNoneMatchValues(e) == {""} \cup {FormatInt(n) : n \in 0 .. e}

(***************************************************************************)
(* api.go: what a handler writes to its http.ResponseWriter                *)
(***************************************************************************)
\* writeError(w, status, code, reason)
writeError(status) ==
    [status |-> status, eTag |-> "", body |-> "errorResponse", deployments |-> {}]

\* w.WriteHeader(http.StatusNotModified)
writeNotModified ==
    [status |-> StatusNotModified, eTag |-> "", body |-> "", deployments |-> {}]

\* sendDeployments(w, dataDeps, eTag): the ETag header and the marshalled list
sendDeployments(dataDeps, tag) ==
    [status |-> StatusOK, eTag |-> tag, body |-> "contents", deployments |-> dataDeps]

\* apiReturnBlobData(w, r): getLocalFSLocation(blobId), whose query may fail;
\* ioutil.ReadFile(fs), which fails for the path "" of an id with no row and
\* for a file that cannot be read; then the bytes of the file, here named by
\* its path
apiReturnBlobData(table, blobId, lookupErr, readable) ==
    LET fs == getLocalFSLocation(table, blobId)
    IN  IF lookupErr THEN writeError(StatusInternalServerError)
        ELSE IF fs = "" \/ ~readable THEN writeError(StatusInternalServerError)
        ELSE [status |-> StatusOK, eTag |-> "", body |-> fs, deployments |-> {}]

\* the result of the delivery goroutine's query: the configurations that are
\* not ready
getUnreadyDeployments(rows, table) ==
    structFromRows({a \in rows : a.id \notin ReadyIds(rows, table)})

\* the configuration table Spec runs over: one configuration that needs its
\* bean blob only and one that needs a resource blob too
ApiConfigs ==
    {Row("1", "b1", SqlNull, "ORGANIZATION"), Row("2", "b1", "b2", "ENVIRONMENT")}

\* the local path a downloaded blob is stored at
ApiBlobPath == "/p1"

(***************************************************************************)
(* The initial state of the goroutines of api.go                           *)
(***************************************************************************)
Requests == 1 .. NumRequests

IdleRequest ==
    [pc |-> "idle", blobId |-> "", block |-> "", ifNoneMatch |-> "", typeFilter |-> "",
     sendETag |-> "", hasChan |-> FALSE, branch |-> "none", unsub |-> "no"]

ApiInit ==
    /\ eTag = 0
    /\ deploymentsChanged = <<>>
    /\ toSend = <<>>
    /\ debouncePc = "select"
    /\ deliverDeployments = <<>>
    /\ subscribers = {}
    /\ tasks = <<>>
    /\ req = [r \in Requests |-> IdleRequest]
    /\ chan = [r \in Requests |-> <<>>]
    /\ delivered = [r \in Requests |-> <<>>]
    /\ responses = [r \in Requests |-> <<>>]
    /\ nEvents = 0

(***************************************************************************)
(* SpecData: the dbManager calls, over every small configuration table     *)
(***************************************************************************)
NoPath == "<none>"

DataInit ==
    /\ configs \in ConfigTables
    /\ blobAvailable = EmptyTable
    /\ dbResult = NoResult
    /\ firstPath = [b \in DataBlobIds |-> NoPath]
    /\ typeParams = {""}
    /\ blobParams = {}
    /\ ApiInit

\* dbManager.updateLocalFsLocation(blobId, localFsLocation)
UpdateLocalFsLocation(blobId, localFsLocation) ==
    LET r == InsertOrIgnore(blobAvailable, blobId, localFsLocation)
    IN  /\ blobAvailable' = r.table
        /\ dbResult' = [op |-> "updateLocalFsLocation", blobId |-> blobId,
                        localFsLocation |-> localFsLocation, err |-> r.err]
        /\ firstPath' = IF firstPath[blobId] = NoPath
                         THEN [firstPath EXCEPT ![blobId] = localFsLocation]
                         ELSE firstPath
        /\ UNCHANGED <<configs, apiVars>>

\* dbManager.getReadyDeployments(typeFilter)
GetReadyDeployments(typeFilter) ==
    /\ dbResult' = [op |-> "getReadyDeployments", typeFilter |-> typeFilter,
                    ret |-> getReadyDeployments(configs, blobAvailable, typeFilter)]
    /\ UNCHANGED <<configs, blobAvailable, firstPath, apiVars>>

\* dbManager.getUnreadyBlobs()
GetUnreadyBlobs ==
    /\ dbResult' = [op |-> "getUnreadyBlobs",
                    ret |-> getUnreadyBlobs(configs, blobAvailable)]
    /\ UNCHANGED <<configs, blobAvailable, firstPath, apiVars>>

\* dbManager.getLocalFSLocation(blobId)
GetLocalFSLocation(blobId) ==
    /\ dbResult' = [op |-> "getLocalFSLocation", blobId |-> blobId,
                    ret |-> getLocalFSLocation(blobAvailable, blobId)]
    /\ UNCHANGED <<configs, blobAvailable, firstPath, apiVars>>

\* GET /blob/{blobId}: apiReturnBlobData
ApiReturnBlobData(blobId, lookupErr, readable) ==
    /\ dbResult' = [op |-> "apiReturnBlobData", blobId |-> blobId,
                    lookupErr |-> lookupErr, readable |-> readable,
                    response |-> apiReturnBlobData(blobAvailable, blobId, lookupErr, readable)]
    /\ UNCHANGED <<configs, blobAvailable, firstPath, apiVars>>

\* the ids GET /configurations/{id} is called with: those a table can hold and
\* one that no table holds
ConfigIds == {ToString(i) : i \in 1 .. (MaxConfigs + 1)}

\* GET /configurations/{id}: dbManager.getConfigById(id) and the answer
GetConfigById(id, dbFails) ==
    LET result == getConfigById(configs, id, dbFails)
    IN  /\ dbResult' = [op |-> "getConfigById", id |-> id, dbFails |-> dbFails,
                        ret |-> result, status |-> configIdStatus(result)]
        /\ UNCHANGED <<configs, blobAvailable, firstPath, apiVars>>

\* initDb() called again on the database in use
InitDb(dbFails) ==
    LET result == initDb(Initialised, blobAvailable, dbFails)
    IN  /\ dbResult' = [op |-> "initDb", dbFails |-> dbFails, err |-> result.err]
        /\ blobAvailable' = result.table
        /\ UNCHANGED <<configs, firstPath, apiVars>>

\* the typeFilter arguments: none, each type of the rows, and a value that is
\* no row's type but differs from one only in case
TypeFilters == {""} \cup {Types[i] : i \in 1 .. Len(Types)} \cup {"organization"}

DataNext ==
    \/ \E b \in DataBlobIds : \E p \in Paths : UpdateLocalFsLocation(b, p)
    \/ \E t \in TypeFilters : GetReadyDeployments(t)
    \/ GetUnreadyBlobs
    \/ \E b \in DataBlobIds : GetLocalFSLocation(b)
    \/ \E b \in DataBlobIds : \E lookupErr \in BOOLEAN : \E readable \in BOOLEAN :
          ApiReturnBlobData(b, lookupErr, readable)
    \/ \E id \in ConfigIds : \E dbFails \in BOOLEAN : GetConfigById(id, dbFails)
    \/ \E dbFails \in BOOLEAN : InitDb(dbFails)

SpecData == DataInit /\ [][DataNext]_vars

(***************************************************************************)
(* Spec: the goroutines of api.go                                          *)
(***************************************************************************)
Init ==
    /\ configs = ApiConfigs
    /\ blobAvailable = EmptyTable
    /\ dbResult = NoResult
    /\ firstPath = [b \in DataBlobIds |-> NoPath]
    /\ typeParams = {""}
    /\ blobParams = {}
    /\ ApiInit

\* A closed channel still hands out what it buffered; after that every receive
\* returns ok == false.  The close is kept as a mark behind the buffered
\* events, which are numbered from 1.
Closed == 0

InputClosed ==
    IF deploymentsChanged = <<>> THEN FALSE
    ELSE deploymentsChanged[Len(deploymentsChanged)] = Closed

\* A blob download completes: its local path is recorded and a change event
\* is sent to deploymentsChanged.
BlobDownloaded(b) ==
    /\ nEvents < MaxEvents
    /\ ~InputClosed
    /\ Len(deploymentsChanged) < DeploymentsChangedCap
    /\ blobAvailable' = InsertOrIgnore(blobAvailable, b, ApiBlobPath).table
    /\ deploymentsChanged' = Append(deploymentsChanged, nEvents + 1)
    /\ nEvents' = nEvents + 1
    /\ UNCHANGED <<configs, dbResult, firstPath, typeParams, blobParams, eTag, toSend, debouncePc,
                   deliverDeployments, subscribers, tasks, req, chan, delivered,
                   responses>>

\* ---- debounce(in, out, window) ----

DebounceReceive_NoCoalesce ==
    /\ debouncePc = "select"
    /\ deploymentsChanged # <<>>
    /\ Head(deploymentsChanged) # Closed
    /\ toSend' = Append(toSend, Head(deploymentsChanged))
    /\ deploymentsChanged' = Tail(deploymentsChanged)
    /\ debouncePc' = "send"
    /\ UNCHANGED <<dataVars, typeParams, blobParams, eTag, deliverDeployments, subscribers,
                   tasks, req, chan, delivered, responses, nEvents>>

\* case incoming, ok := <-in (ok): toSend = append(toSend, incoming)
DebounceReceive ==
    /\ debouncePc = "select"
    /\ deploymentsChanged # <<>>
    /\ Head(deploymentsChanged) # Closed
    /\ toSend' = Append(toSend, Head(deploymentsChanged))
    /\ deploymentsChanged' = Tail(deploymentsChanged)
    /\ UNCHANGED <<dataVars, typeParams, blobParams, eTag, debouncePc, deliverDeployments, subscribers,
                   tasks, req, chan, delivered, responses, nEvents>>

\* case <-time.After(window): the window passed with nothing to receive.
\* send(toSend) does nothing for a nil slice, else goes on to out <- toSend.
DebounceWindow ==
    /\ debouncePc = "select"
    /\ deploymentsChanged = <<>>
    /\ debouncePc' = IF toSend # <<>> THEN "send" ELSE "select"
    /\ UNCHANGED <<dataVars, typeParams, blobParams, eTag, deploymentsChanged, toSend, deliverDeployments,
                   subscribers, tasks, req, chan, delivered, responses, nEvents>>

\* out <- toSend (blocks while the buffer is full), then toSend = nil
DebounceSend ==
    /\ debouncePc = "send"
    /\ Len(deliverDeployments) < DeliverDeploymentsCap
    /\ deliverDeployments' = Append(deliverDeployments, toSend)
    /\ toSend' = <<>>
    /\ debouncePc' = "select"
    /\ UNCHANGED <<dataVars, typeParams, blobParams, eTag, deploymentsChanged, subscribers, tasks, req,
                   chan, delivered, responses, nEvents>>

\* The sender closes the input of debounce: close(in).
CloseInput ==
    /\ ~InputClosed
    /\ deploymentsChanged' = Append(deploymentsChanged, Closed)
    /\ UNCHANGED <<dataVars, typeParams, blobParams, eTag, toSend, debouncePc, deliverDeployments,
                   subscribers, tasks, req, chan, delivered, responses, nEvents>>

DebounceInputClosed_NoFlush ==
    /\ debouncePc = "select"
    /\ deploymentsChanged # <<>>
    /\ Head(deploymentsChanged) = Closed
    /\ debouncePc' = "closed"
    /\ UNCHANGED <<dataVars, typeParams, blobParams, eTag, deploymentsChanged, toSend, deliverDeployments,
                   subscribers, tasks, req, chan, delivered, responses, nEvents>>

\* case incoming, ok := <-in (!ok): send(toSend) does nothing for a nil slice
\* and debounce goes on to close(out); else it goes on to out <- toSend.
DebounceInputClosed ==
    /\ debouncePc = "select"
    /\ deploymentsChanged # <<>>
    /\ Head(deploymentsChanged) = Closed
    /\ debouncePc' = IF toSend # <<>> THEN "flush" ELSE "closed"
    /\ UNCHANGED <<dataVars, typeParams, blobParams, eTag, deploymentsChanged, toSend, deliverDeployments,
                   subscribers, tasks, req, chan, delivered, responses, nEvents>>

\* out <- toSend (blocks while the buffer is full), then close(out); return.
\* toSend is not reset: it is a local of the function that returned.
DebounceFlush ==
    /\ debouncePc = "flush"
    /\ Len(deliverDeployments) < DeliverDeploymentsCap
    /\ deliverDeployments' = Append(deliverDeployments, toSend)
    /\ debouncePc' = "closed"
    /\ UNCHANGED <<dataVars, typeParams, blobParams, eTag, deploymentsChanged, toSend, subscribers,
                   tasks, req, chan, delivered, responses, nEvents>>

\* ---- distributeEvents ----

\* subscribers = make(map[chan deploymentsResult]struct{}) after subs := subscribers
swapSubscribers_Keep(subs) == subs

swapSubscribers(subs) == {}

\* case _, ok := <-deliverDeployments: the settle.  The waiters are handed to a
\* new delivery goroutine and the map is replaced.  (The batch received, which the
\* code discards, and the blob ids recorded by then are kept with the goroutine
\* as the record of the settle.)
LoopDeliver_StopsAfterError ==
    /\ deliverDeployments # <<>>
    /\ \A r \in Requests : IF delivered[r] = <<>> THEN TRUE ELSE ~delivered[r][1].err
    /\ deliverDeployments' = Tail(deliverDeployments)
    /\ tasks' = Append(tasks, [pc |-> "increment", subs |-> subscribers,
                               pending |-> subscribers, eTag |-> "",
                               deployments |-> {}, err |-> FALSE,
                               batch |-> Head(deliverDeployments),
                               avail |-> DOMAIN blobAvailable])
    /\ subscribers' = swapSubscribers(subscribers)
    /\ UNCHANGED <<dataVars, typeParams, blobParams, eTag, deploymentsChanged, toSend, debouncePc, req,
                   chan, delivered, responses, nEvents>>

LoopDeliver ==
    /\ deliverDeployments # <<>>
    /\ deliverDeployments' = Tail(deliverDeployments)
    /\ tasks' = Append(tasks, [pc |-> "increment", subs |-> subscribers,
                               pending |-> subscribers, eTag |-> "",
                               deployments |-> {}, err |-> FALSE,
                               batch |-> Head(deliverDeployments),
                               avail |-> DOMAIN blobAvailable])
    /\ subscribers' = swapSubscribers(subscribers)
    /\ UNCHANGED <<dataVars, typeParams, blobParams, eTag, deploymentsChanged, toSend, debouncePc, req,
                   chan, delivered, responses, nEvents>>

\* case subscriber := <-addSubscriber, met by the handler's
\* addSubscriber <- newDeploymentsChannel
LoopAdd(r) ==
    /\ req[r].pc = "subscribe"
    /\ subscribers' = subscribers \cup {r}
    /\ req' = [req EXCEPT ![r].pc = "wait"]
    /\ UNCHANGED <<dataVars, typeParams, blobParams, eTag, deploymentsChanged, toSend, debouncePc,
                   deliverDeployments, tasks, chan, delivered, responses, nEvents>>

\* ---- the delivery goroutine of a settle: go func() { ... }() ----

\* eTag := incrementETag()
TaskIncrement(t) ==
    /\ tasks[t].pc = "increment"
    /\ eTag' = incrementETag(eTag).value
    /\ tasks' = [tasks EXCEPT ![t].pc = "query", ![t].eTag = incrementETag(eTag).ret]
    /\ UNCHANGED <<dataVars, typeParams, blobParams, deploymentsChanged, toSend, debouncePc,
                   deliverDeployments, subscribers, req, chan, delivered,
                   responses, nEvents>>

\* deployments, err := getUnreadyDeployments(); the query may fail.  (The
\* locals of a goroutine that has returned are dropped; subs and eTag are kept
\* as the record of the settle.)
TaskQuery_DropOnError(t, err) ==
    /\ tasks[t].pc = "query"
    /\ tasks' = [tasks EXCEPT ![t] =
                    IF tasks[t].pending = {} \/ err
                    THEN [@ EXCEPT !.pc = "done"]
                    ELSE [@ EXCEPT !.pc = "send", !.err = err,
                                   !.deployments =
                                       IF err THEN {}
                                       ELSE getUnreadyDeployments(configs, blobAvailable)]]
    /\ UNCHANGED <<dataVars, typeParams, blobParams, eTag, deploymentsChanged, toSend, debouncePc,
                   deliverDeployments, subscribers, req, chan, delivered,
                   responses, nEvents>>

TaskQuery(t, err) ==
    /\ tasks[t].pc = "query"
    /\ tasks' = [tasks EXCEPT ![t] =
                    IF tasks[t].pending = {}
                    THEN [@ EXCEPT !.pc = "done"]
                    ELSE [@ EXCEPT !.pc = "send", !.err = err,
                                   !.deployments =
                                       IF err THEN {}
                                       ELSE getUnreadyDeployments(configs, blobAvailable)]]
    /\ UNCHANGED <<dataVars, typeParams, blobParams, eTag, deploymentsChanged, toSend, debouncePc,
                   deliverDeployments, subscribers, req, chan, delivered,
                   responses, nEvents>>

\* the deploymentsResult the goroutine sends
taskResult(t) ==
    [deployments |-> tasks[t].deployments, err |-> tasks[t].err, eTag |-> tasks[t].eTag]

TaskSend_Unbuffered(t, s) ==
    /\ tasks[t].pc = "send"
    /\ s \in tasks[t].pending
    /\ req[s].pc = "wait"
    /\ chan' = [chan EXCEPT ![s] = Append(@, taskResult(t))]
    /\ delivered' = [delivered EXCEPT ![s] = Append(@, taskResult(t))]
    /\ tasks' = [tasks EXCEPT ![t] =
                    IF tasks[t].pending = {s}
                    THEN [@ EXCEPT !.pc = "done", !.pending = {}, !.err = FALSE,
                                   !.deployments = {}]
                    ELSE [@ EXCEPT !.pending = @ \ {s}]]
    /\ UNCHANGED <<dataVars, typeParams, blobParams, eTag, deploymentsChanged, toSend, debouncePc,
                   deliverDeployments, subscribers, req, responses, nEvents>>

\* subscriber <- deploymentsResult{deployments, err, eTag}, for one subscriber
\* of the range loop (map order: any)
TaskSend(t, s) ==
    /\ tasks[t].pc = "send"
    /\ s \in tasks[t].pending
    /\ Len(chan[s]) < SubscriberChanCap
    /\ chan' = [chan EXCEPT ![s] = Append(@, taskResult(t))]
    /\ delivered' = [delivered EXCEPT ![s] = Append(@, taskResult(t))]
    /\ tasks' = [tasks EXCEPT ![t] =
                    IF tasks[t].pending = {s}
                    THEN [@ EXCEPT !.pc = "done", !.pending = {}, !.err = FALSE,
                                   !.deployments = {}]
                    ELSE [@ EXCEPT !.pending = @ \ {s}]]
    /\ UNCHANGED <<dataVars, typeParams, blobParams, eTag, deploymentsChanged, toSend, debouncePc,
                   deliverDeployments, subscribers, req, responses, nEvents>>

\* ---- apiGetCurrentDeployments ----

\* if eTag == ifNoneMatch && timeout == 0
notModifiedNow_NonZero(tag, ifNoneMatch, timeout) == tag = ifNoneMatch /\ timeout # 0

notModifiedNow(tag, ifNoneMatch, timeout) == tag = ifNoneMatch /\ timeout = 0

\* if eTag != ifNoneMatch: sendReadyDeployments(w) and return
sendsNow_TokenRequired(tag, ifNoneMatch) == tag # ifNoneMatch /\ ifNoneMatch # ""

sendsNow(tag, ifNoneMatch) == tag # ifNoneMatch

\* if timeout > 0 && ifNoneMatch != "": the handler makes a channel and subscribes
subscribes_AnyTimeout(timeout, ifNoneMatch) == ifNoneMatch # ""

subscribes(timeout, ifNoneMatch) == timeout > 0 /\ ifNoneMatch # ""

\* the type parameter of the query string a client may send
TypeParams == {"", "ORGANIZATION"}

\* the blob ids of the GET /blob/{blobId} requests of a run that has them
BlobParams == {"b1"}

\* the blobId of a request that is a GET /configurations
NoBlob == ""

\* A request arrives: a GET /configurations with its block parameter, its
\* If-None-Match header and its type parameter, or a GET /blob/{blobId}, which
\* has none of them.  (Request ids are interchangeable: they are handed out in
\* order.)
Arrive(r, b, inm, ty, blobId) ==
    /\ req[r].pc = "idle"
    /\ \A q \in Requests : q < r => req[q].pc # "idle"
    /\ blobId # NoBlob => (b = "" /\ inm = "" /\ ty = "")
    /\ req' = [req EXCEPT ![r].pc = "received", ![r].block = b, ![r].ifNoneMatch = inm,
                          ![r].typeFilter = ty, ![r].blobId = blobId]
    /\ UNCHANGED <<dataVars, typeParams, blobParams, eTag, deploymentsChanged, toSend, debouncePc,
                   deliverDeployments, subscribers, tasks, chan, delivered,
                   responses, nEvents>>

\* the handler's locals once the request has been answered
Answered(branch, unsub) ==
    [IdleRequest EXCEPT !.pc = "done", !.branch = branch, !.unsub = unsub]

\* The handler runs up to its first communication: it parses block, reads the
\* version token and takes its branch.  Locals the branch no longer reads are
\* dropped (block and If-None-Match after the comparisons; timeout is read
\* once more, by time.After, which fires at once when it is not positive).
\* The handler never reads the type parameter of the request: it stays with
\* the request that sendReadyDeployments answers, as what the client asked.
\* A GET /blob/{blobId} is routed to apiReturnBlobData, which answers in this
\* step; its lookup may fail and the file may be unreadable.
Handle(r) ==
    /\ req[r].pc = "received"
    /\ IF req[r].blobId # NoBlob
       THEN \E lookupErr \in BOOLEAN : \E readable \in BOOLEAN :
               /\ req' = [req EXCEPT ![r] = Answered("blob", "no")]
               /\ responses' = [responses EXCEPT ![r] = Append(@,
                      apiReturnBlobData(blobAvailable, req[r].blobId, lookupErr, readable))]
       ELSE LET b       == req[r].block
                  inm     == req[r].ifNoneMatch
                  parsed  == IF b = "" THEN [err |-> FALSE, n |-> 0] ELSE Atoi(b)
                  timeout == parsed.n
                  tag     == getETag(eTag)
              IN  IF parsed.err
                  THEN /\ req' = [req EXCEPT ![r] = Answered("badBlock", "no")]
                       /\ responses' = [responses EXCEPT ![r] = Append(@, writeError(StatusBadRequest))]
                  ELSE IF notModifiedNow(tag, inm, timeout)
                  THEN /\ req' = [req EXCEPT ![r] = Answered("notModified", "no")]
                       /\ responses' = [responses EXCEPT ![r] = Append(@, writeNotModified)]
                  ELSE IF sendsNow(tag, inm)
                  THEN /\ req' = [req EXCEPT ![r] = [IdleRequest EXCEPT !.pc = "sendReady",
                                                                        !.branch = "immediate",
                                                                        !.typeFilter = req[r].typeFilter]]
                       /\ UNCHANGED responses
                  ELSE /\ req' = [req EXCEPT ![r] =
                                     [IdleRequest EXCEPT
                                         !.pc = IF subscribes(timeout, inm) THEN "subscribe"
                                                ELSE IF timeout > 0 THEN "wait" ELSE "expired",
                                         !.ifNoneMatch = inm,
                                         !.hasChan = subscribes(timeout, inm),
                                         !.branch = "blocked"]]
                       /\ UNCHANGED responses
    /\ UNCHANGED <<dataVars, typeParams, blobParams, eTag, deploymentsChanged, toSend, debouncePc,
                   deliverDeployments, subscribers, tasks, chan, delivered, nEvents>>

SendReadyETag_Increments(r) ==
    /\ req[r].pc = "sendReady"
    /\ req' = [req EXCEPT ![r].pc = "query", ![r].sendETag = incrementETag(eTag).ret]
    /\ eTag' = incrementETag(eTag).value
    /\ UNCHANGED <<dataVars, typeParams, blobParams, deploymentsChanged, toSend, debouncePc,
                   deliverDeployments, subscribers, tasks, chan, delivered,
                   responses, nEvents>>

\* sendReadyDeployments: eTag := getETag()
SendReadyETag(r) ==
    /\ req[r].pc = "sendReady"
    /\ req' = [req EXCEPT ![r].pc = "query", ![r].sendETag = getETag(eTag)]
    /\ UNCHANGED <<dataVars, typeParams, blobParams, eTag, deploymentsChanged, toSend, debouncePc,
                   deliverDeployments, subscribers, tasks, chan, delivered,
                   responses, nEvents>>

\* sendReadyDeployments: deployments, err := getReadyDeployments(), then the
\* "Database error" response or sendDeployments(w, deployments, eTag)
SendReadyQuery(r, err) ==
    /\ req[r].pc = "query"
    /\ req' = [req EXCEPT ![r] = Answered(req[r].branch, req[r].unsub)]
    /\ responses' = [responses EXCEPT ![r] = Append(@,
            IF err THEN writeError(StatusInternalServerError)
            ELSE sendDeployments(getReadyDeployments(configs, blobAvailable, ""),
                                 req[r].sendETag))]
    /\ UNCHANGED <<dataVars, typeParams, blobParams, eTag, deploymentsChanged, toSend, debouncePc,
                   deliverDeployments, subscribers, tasks, chan, delivered, nEvents>>

\* time.After(time.Duration(timeout) * time.Second) fires
TimerFire(r) ==
    /\ req[r].pc = "wait"
    /\ req' = [req EXCEPT ![r].pc = "expired"]
    /\ UNCHANGED <<dataVars, typeParams, blobParams, eTag, deploymentsChanged, toSend, debouncePc,
                   deliverDeployments, subscribers, tasks, chan, delivered,
                   responses, nEvents>>

\* what the branch case result := <-newDeploymentsChannel writes
deliveryResponses_NoElse(result) ==
    IF result.err
    THEN <<writeError(StatusInternalServerError),
           sendDeployments(result.deployments, result.eTag)>>
    ELSE <<sendDeployments(result.deployments, result.eTag)>>

deliveryResponses(result) ==
    IF result.err
    THEN <<writeError(StatusInternalServerError)>>
    ELSE <<sendDeployments(result.deployments, result.eTag)>>

\* select: case result := <-newDeploymentsChannel
DeliveryBranch(r) ==
    /\ req[r].pc \in {"wait", "expired"}
    /\ req[r].hasChan
    /\ chan[r] # <<>>
    /\ chan' = [chan EXCEPT ![r] = Tail(@)]
    /\ req' = [req EXCEPT ![r] = Answered("delivered", "no")]
    /\ responses' = [responses EXCEPT ![r] = @ \o deliveryResponses(Head(chan[r]))]
    /\ UNCHANGED <<dataVars, typeParams, blobParams, eTag, deploymentsChanged, toSend, debouncePc,
                   deliverDeployments, subscribers, tasks, delivered, nEvents>>

\* case subscriber := <-removeSubscriber: delete(subscribers, subscriber)
removeSubscriber_Forgotten(subs, r) == subs

removeSubscriber_ClearsOnMiss(subs, r) == IF r \in subs THEN subs \ {r} ELSE {}

removeSubscriber(subs, r) == subs \ {r}

\* select: case <-time.After(...): removeSubscriber <- newDeploymentsChannel is
\* met by the loop's delete (a nil channel is no key of the map), then 304 for
\* a request with a token, sendReadyDeployments for one without
TimeoutBranch_Early(r) ==
    /\ req[r].pc \in {"wait", "expired"}
    /\ subscribers' = IF req[r].hasChan THEN removeSubscriber(subscribers, r)
                                        ELSE subscribers
    /\ IF req[r].ifNoneMatch # ""
       THEN /\ req' = [req EXCEPT ![r] =
                          Answered("timeout", IF r \in subscribers THEN "removed" ELSE "absent")]
            /\ responses' = [responses EXCEPT ![r] = Append(@, writeNotModified)]
       ELSE /\ req' = [req EXCEPT ![r] =
                          [IdleRequest EXCEPT
                              !.pc = "sendReady", !.branch = "timeout",
                              !.unsub = IF r \in subscribers THEN "removed" ELSE "absent"]]
            /\ UNCHANGED responses
    /\ UNCHANGED <<dataVars, typeParams, blobParams, eTag, deploymentsChanged, toSend, debouncePc,
                   deliverDeployments, tasks, chan, delivered, nEvents>>

TimeoutBranch_NoUnsubscribe(r) ==
    /\ req[r].pc = "expired"
    /\ subscribers' = subscribers
    /\ IF req[r].ifNoneMatch # ""
       THEN /\ req' = [req EXCEPT ![r] =
                          Answered("timeout", IF r \in subscribers THEN "removed" ELSE "absent")]
            /\ responses' = [responses EXCEPT ![r] = Append(@, writeNotModified)]
       ELSE /\ req' = [req EXCEPT ![r] =
                          [IdleRequest EXCEPT
                              !.pc = "sendReady", !.branch = "timeout",
                              !.unsub = IF r \in subscribers THEN "removed" ELSE "absent"]]
            /\ UNCHANGED responses
    /\ UNCHANGED <<dataVars, typeParams, blobParams, eTag, deploymentsChanged, toSend, debouncePc,
                   deliverDeployments, tasks, chan, delivered, nEvents>>

TimeoutBranch(r) ==
    /\ req[r].pc = "expired"
    /\ subscribers' = IF req[r].hasChan THEN removeSubscriber(subscribers, r)
                                        ELSE subscribers
    /\ IF req[r].ifNoneMatch # ""
       THEN /\ req' = [req EXCEPT ![r] =
                          Answered("timeout", IF r \in subscribers THEN "removed" ELSE "absent")]
            /\ responses' = [responses EXCEPT ![r] = Append(@, writeNotModified)]
       ELSE /\ req' = [req EXCEPT ![r] =
                          [IdleRequest EXCEPT
                              !.pc = "sendReady", !.branch = "timeout",
                              !.unsub = IF r \in subscribers THEN "removed" ELSE "absent"]]
            /\ UNCHANGED responses
    /\ UNCHANGED <<dataVars, typeParams, blobParams, eTag, deploymentsChanged, toSend, debouncePc,
                   deliverDeployments, tasks, chan, delivered, nEvents>>

Next ==
    \/ \E b \in DataBlobIds : BlobDownloaded(b)
    \/ DebounceReceive
    \/ DebounceWindow
    \/ DebounceSend
    \/ LoopDeliver
    \/ \E r \in Requests : LoopAdd(r)
    \/ \E t \in 1 .. Len(tasks) : TaskIncrement(t)
    \/ \E t \in 1 .. Len(tasks) : \E err \in BOOLEAN : TaskQuery(t, err)
    \/ \E t \in 1 .. Len(tasks) : \E s \in Requests : TaskSend(t, s)
    \/ \E r \in Requests : \E b \in BlockParams : \E inm \in IfNoneMatchValues(eTag) :
          \E ty \in typeParams : \E blobId \in {NoBlob} \cup blobParams :
             Arrive(r, b, inm, ty, blobId)
    \/ \E r \in Requests : Handle(r)
    \/ \E r \in Requests : SendReadyETag(r)
    \/ \E r \in Requests : \E err \in BOOLEAN : SendReadyQuery(r, err)
    \/ \E r \in Requests : TimerFire(r)
    \/ \E r \in Requests : DeliveryBranch(r)
    \/ \E r \in Requests : TimeoutBranch(r)

Spec == Init /\ [][Next]_vars

\* debounce with a sender that may close its input.  No request arrives; the
\* loop takes the batches and its goroutines settle them.
DebounceNext ==
    \/ \E b \in DataBlobIds : BlobDownloaded(b)
    \/ CloseInput
    \/ DebounceReceive
    \/ DebounceWindow
    \/ DebounceSend
    \/ DebounceInputClosed
    \/ DebounceFlush
    \/ LoopDeliver
    \/ \E t \in 1 .. Len(tasks) : TaskIncrement(t)
    \/ \E t \in 1 .. Len(tasks) : \E err \in BOOLEAN : TaskQuery(t, err)

SpecDebounce == Init /\ [][DebounceNext]_vars

\* The steps of the goroutines, which the Go scheduler runs when they can run,
\* and the timers, which fire; requests and blob downloads may stop coming.
RequestStep(r) ==
    \/ Handle(r)
    \/ LoopAdd(r)
    \/ SendReadyETag(r)
    \/ \E err \in BOOLEAN : SendReadyQuery(r, err)
    \/ TimerFire(r)
    \/ DeliveryBranch(r)
    \/ TimeoutBranch(r)

DebounceStep == DebounceReceive \/ DebounceWindow \/ DebounceSend

TaskStep ==
    \E t \in 1 .. Len(tasks) :
        \/ TaskIncrement(t)
        \/ \E err \in BOOLEAN : TaskQuery(t, err)
        \/ \E s \in Requests : TaskSend(t, s)

Fairness ==
    /\ \A r \in Requests : WF_vars(RequestStep(r))
    /\ WF_vars(DebounceStep)
    /\ WF_vars(LoopDeliver)
    /\ WF_vars(TaskStep)

FairSpec == Init /\ [][Next]_vars /\ Fairness

\* The same goroutines, serving clients that may send a type parameter.
InitTyped ==
    /\ configs = ApiConfigs
    /\ blobAvailable = EmptyTable
    /\ dbResult = NoResult
    /\ firstPath = [b \in DataBlobIds |-> NoPath]
    /\ typeParams = TypeParams
    /\ blobParams = {}
    /\ ApiInit

SpecTyped == InitTyped /\ [][Next]_vars

\* The same goroutines, serving clients that also download blobs.
InitBlob ==
    /\ configs = ApiConfigs
    /\ blobAvailable = EmptyTable
    /\ dbResult = NoResult
    /\ firstPath = [b \in DataBlobIds |-> NoPath]
    /\ typeParams = {""}
    /\ blobParams = BlobParams
    /\ ApiInit

SpecBlob == InitBlob /\ [][Next]_vars

(***************************************************************************)
(* Claims about the storage queries (checked under SpecData)               *)
(***************************************************************************)
\* the blob ids recorded as available
Available == DOMAIN blobAvailable

\* C1: getReadyDeployments with no type filter returns exactly the
\* configurations whose bean blob id is recorded as available and whose
\* resource blob id is empty, NULL or recorded as available.
C1_ReadyIffBlobsAvailable ==
    (dbResult.op = "getReadyDeployments" /\ dbResult.typeFilter = "") =>
        {c.ID : c \in dbResult.ret} =
            {a.id : a \in {x \in configs :
                /\ x.bean_blob_id \in Available
                /\ \/ x.resource_blob_id \in {"", SqlNull}
                   \/ x.resource_blob_id \in Available}}

\* C1 witness: an unfiltered call has returned a configuration with an empty
\* or NULL resource blob and one with an available resource blob, and has left
\* out one whose bean blob is available and whose resource blob is not.
C1_Witness ==
    /\ dbResult.op = "getReadyDeployments" /\ dbResult.typeFilter = ""
    /\ \E c \in dbResult.ret : c.BlobResourceID = ""
    /\ \E x \in configs :
          /\ x.bean_blob_id \in Available
          /\ x.resource_blob_id \notin {"", SqlNull}
          /\ x.resource_blob_id \notin Available
          /\ x.id \notin {c.ID : c \in dbResult.ret}

\* C2: getUnreadyBlobs returns, as a set, exactly the bean and resource blob
\* ids the configurations reference that are non-empty, non-NULL and not
\* recorded as available.
C2_UnreadyIsReferencedMinusAvailable ==
    dbResult.op = "getUnreadyBlobs" =>
        dbResult.ret =
            ({x.bean_blob_id : x \in configs} \cup {x.resource_blob_id : x \in configs})
                \ ({"", SqlNull} \cup Available)

\* C2 witness: a call over a table that references an empty blob id, an
\* available blob and a missing blob has returned the missing one alone.
C2_Witness ==
    /\ dbResult.op = "getUnreadyBlobs"
    /\ \E x \in configs : x.resource_blob_id = ""
    /\ \E x \in configs : x.bean_blob_id \in Available
    /\ Cardinality(dbResult.ret) = 1
    /\ Available # {}

TaskIds == 1 .. Len(tasks)

\* the settles whose goroutine has run incrementETag
Incremented == {t \in TaskIds : tasks[t].pc # "increment"}

\* the requests a settle took from the waiter set
Taken == UNION {tasks[t].subs : t \in TaskIds}

\* r's handler takes its first step / answers from sendReadyDeployments
HandleStep(r) == req[r].pc = "received" /\ req'[r].pc # "received"

QueryStep(r) == req[r].pc = "query" /\ req'[r].pc = "done"

\* r was never handed to the distributor: no waiter, no delivery
NeverRegistered(r) ==
    /\ r \notin subscribers
    /\ r \notin Taken
    /\ delivered[r] = <<>>
    /\ chan[r] = <<>>

\* C4: the version token is the initial token plus the number of settles whose
\* increment has run, and the tokens handed to those settles are exactly
\* 1 .. eTag, one settle each: the token advances by one per settle and never
\* goes back.
C4_ETagCountsSettles ==
    /\ eTag = Cardinality(Incremented)
    /\ {tasks[t].eTag : t \in Incremented} = {FormatInt(n) : n \in 1 .. eTag}
    /\ \A t \in TaskIds : t \notin Incremented => tasks[t].eTag = ""

\* C4 witness: two settles are in flight and the increment of the second has
\* run before the increment of the first.
C4_Witness ==
    /\ Len(tasks) = 2
    /\ tasks[1].pc = "increment"
    /\ tasks[2].pc # "increment"
    /\ eTag = 1

\* every 200 response written so far, by any request
OkResponses ==
    {resp \in UNION {{responses[r][i] : i \in 1 .. Len(responses[r])} : r \in Requests} :
        resp.status = StatusOK}

\* C5 (as claimed): two 200 responses that carry the same version token carry
\* the same list of configurations.
C5_SameTokenSameSnapshot ==
    \A x \in OkResponses : \A y \in OkResponses :
        x.eTag = y.eTag => x.deployments = y.deployments

\* C6: the waiters a settle took are out of the waiter set, belong to that
\* settle alone and each gets at most one result ever; a waiter the goroutine
\* has sent to has exactly one result, carrying the settle's token, the same
\* result for all waiters of the settle; when the goroutine is done none of
\* its waiters was skipped.
C6_OneDeliveryPerWaiterPerSettle ==
    /\ \A r \in Requests : Len(delivered[r]) <= 1
    /\ \A r \in Requests : delivered[r] # <<>> => r \in Taken
    /\ \A t \in TaskIds :
          /\ tasks[t].subs \cap subscribers = {}
          /\ \A u \in TaskIds : u # t => tasks[u].subs \cap tasks[t].subs = {}
          /\ \A s \in tasks[t].subs :
                /\ (tasks[t].pc = "done" \/ (tasks[t].pc = "send" /\ s \notin tasks[t].pending))
                      <=> Len(delivered[s]) = 1
                /\ delivered[s] # <<>> => delivered[s][1].eTag = tasks[t].eTag
                /\ (delivered[s] # <<>> /\ tasks[t].pc = "send")
                      => delivered[s][1] = taskResult(t)
                /\ \A s2 \in tasks[t].subs :
                      (delivered[s] # <<>> /\ delivered[s2] # <<>>)
                          => delivered[s] = delivered[s2]

\* C6 witness: a settle that took two waiters has delivered to both.
C6_Witness ==
    \E t \in TaskIds :
        /\ tasks[t].pc = "done"
        /\ Cardinality(tasks[t].subs) = 2
        /\ \A s \in tasks[t].subs : Len(delivered[s]) = 1

\* C7 (as claimed): no result is ever placed on the channel of a waiter that
\* has taken the timeout branch.
C7_NoDeliveryToTimedOut ==
    \A r \in Requests : req[r].branch = "timeout" => delivered[r] = <<>>

\* C7 (amended): a waiter that has taken the timeout branch never reads a
\* delivery: it is answered 304 by that branch alone, at most one result is
\* ever placed on its channel and that result stays there unread; and when
\* the waiter was still in the waiter set as its unsubscribe was processed,
\* no result is placed on its channel at all.
C7_TimedOutNeverReadsDelivery ==
    \A r \in Requests : req[r].branch = "timeout" =>
        /\ req[r].pc = "done" => responses[r] = <<writeNotModified>>
        /\ Len(delivered[r]) <= 1
        /\ chan[r] = delivered[r]
        /\ req[r].unsub = "removed" => (delivered[r] = <<>> /\ r \notin subscribers
                                         /\ r \notin Taken)

\* C7 witness: a waiter timed out after a settle had taken it, and that
\* settle's result was placed on its channel; another run of the same kind
\* of waiter is covered by unsub = "removed" in C7_WitnessRemoved.
C7_Witness ==
    \E r \in Requests :
        /\ req[r].branch = "timeout" /\ req[r].pc = "done"
        /\ req[r].unsub = "absent"
        /\ Len(delivered[r]) = 1

\* a waiter unsubscribed while still registered, and a settle has run since
C7_WitnessRemoved ==
    \E r \in Requests :
        /\ req[r].branch = "timeout" /\ req[r].unsub = "removed"
        /\ \E t \in TaskIds : tasks[t].pc = "done"

\* C8, safety: a request writes at most one response, and exactly one once its
\* handler has returned; a request answered by a delivery has consumed the one
\* result placed on its channel and never unsubscribed; a request answered by
\* the timeout branch has unsubscribed and read no delivery.
C8_AtMostOneResponse ==
    \A r \in Requests :
        /\ Len(responses[r]) <= 1
        /\ req[r].pc = "done" <=> Len(responses[r]) = 1
        /\ req[r].branch = "delivered" =>
              /\ req[r].pc = "done" /\ req[r].unsub = "no"
              /\ Len(delivered[r]) = 1 /\ chan[r] = <<>>
              /\ responses[r] = deliveryResponses(delivered[r][1])
        /\ (req[r].branch = "timeout" /\ req[r].pc = "done") =>
              /\ req[r].unsub # "no"
              /\ responses[r] = <<writeNotModified>>
              /\ chan[r] = delivered[r]

\* C8: every request is answered exactly once on every path: the safety part
\* above, and every request received is eventually answered wherever its
\* handler stands, so none stays blocked once its timer has fired.
C8_ExactlyOneResponse ==
    /\ []C8_AtMostOneResponse
    /\ \A r \in Requests : (req[r].pc \notin {"idle", "done"}) ~> (req[r].pc = "done")

\* C8 witness: one request was answered by a delivery and another by the
\* timeout branch although a result had been placed on its channel.
C8_Witness ==
    \E r \in Requests : \E q \in Requests :
        /\ req[r].pc = "done" /\ req[r].branch = "delivered"
        /\ req[q].pc = "done" /\ req[q].branch = "timeout"
        /\ Len(delivered[q]) = 1

\* C9: a request whose token equals the current version and whose block is
\* absent or 0 is answered 304 with no body by its first step, which leaves
\* the waiter set and every channel alone; such a request is never known to
\* the distributor.
C9_NotModifiedNoWaiter ==
    /\ [][\A r \in Requests :
            (/\ HandleStep(r)
             /\ req[r].block \in {"", "0"}
             /\ req[r].ifNoneMatch = FormatInt(eTag))
            => /\ req'[r].pc = "done"
               /\ responses'[r] = <<[status |-> StatusNotModified, eTag |-> "",
                                     body |-> "", deployments |-> {}]>>
               /\ subscribers' = subscribers
               /\ chan' = chan]_vars
    /\ [](\A r \in Requests : req[r].branch = "notModified" => NeverRegistered(r))

\* C9 witness: a request has been answered 304 at once after a settle, hence
\* with a token a response had issued.
C9_Witness ==
    \E r \in Requests :
        /\ req[r].branch = "notModified"
        /\ responses[r] = <<writeNotModified>>
        /\ eTag >= 1

\* the block values strconv.Atoi accepts, and no block parameter
IntegerBlocks == {"", "0", "2", "-1"}

TokenValue(tag) == CHOOSE n \in 0 .. (MaxEvents + 1) : FormatInt(n) = tag

\* the delivery goroutine of settle t computes its list without error: the
\* list is the ready set of the configurations and blobs at that moment
RecomputesReadySet(t) ==
    (tasks[t].pc = "query" /\ tasks'[t].pc = "send" /\ ~tasks'[t].err) =>
        tasks'[t].deployments = getReadyDeployments(configs, blobAvailable, "")

\* r, blocked with its timer not fired, is answered from the result on its channel
DeliveredInTime(r) ==
    /\ req[r].pc = "wait" /\ req'[r].pc = "done"
    /\ chan[r] # <<>>

C11_DeliveredVersionGreater ==
    [][\A r \in Requests :
          (req[r].pc \in {"wait", "expired"} /\ req'[r].pc = "done"
              /\ req'[r].branch = "delivered") =>
             /\ req[r].ifNoneMatch # ""
             /\ responses'[r] = deliveryResponses(Head(chan[r]))
             /\ TokenValue(Head(chan[r]).eTag) > TokenValue(req[r].ifNoneMatch)
             /\ TokenValue(Head(chan[r]).eTag) <= eTag
      ]_vars

\* C12: a request that subscribed (token equal to the version it read,
\* block > 0) and has no result on its channel is not answered while its timer
\* has not fired; the timer runs only once the subscription has been taken by
\* the distributor; the 304 of the timeout branch is written after the timer
\* fired, reads nothing from the channel, and leaves the request out of the
\* waiter set (removed by its unsubscribe if it was still there).
C12_NotModifiedOnlyAfterBudget ==
    /\ [][\A r \in Requests :
            /\ (req[r].pc = "wait" /\ chan[r] = <<>>) => req'[r].pc \in {"wait", "expired"}
            /\ (req[r].hasChan /\ req[r].pc # "expired" /\ req'[r].pc = "expired") =>
                  (req[r].pc = "wait" /\ r \in subscribers \cup Taken)
            /\ (req[r].branch = "blocked" /\ req'[r].branch = "timeout") =>
                  /\ req[r].pc = "expired"
                  /\ req'[r].pc = "done"
                  /\ responses'[r] = <<[status |-> StatusNotModified, eTag |-> "",
                                        body |-> "", deployments |-> {}]>>
                  /\ chan'[r] = chan[r]
                  /\ r \notin subscribers'
                  /\ req'[r].unsub = IF r \in subscribers THEN "removed" ELSE "absent"
         ]_vars
    /\ [](\A r \in Requests : req[r].branch = "timeout" => r \notin subscribers)

\* C12 witness: a request that was registered timed out with no settle at all
\* during its wait, removed itself from the waiter set and was answered 304.
C12_Witness ==
    \E r \in Requests :
        /\ req[r].pc = "done" /\ req[r].branch = "timeout"
        /\ req[r].unsub = "removed"
        /\ responses[r] = <<writeNotModified>>
        /\ tasks = <<>>

(***************************************************************************)
(* Claims about the type filter of GET /configurations (under SpecTyped)   *)
(***************************************************************************)
\* C13: a request that carries a type filter (and a block that parses) goes to
\* the immediate answer at its first step, whatever its block and token, and
\* never registers a waiter; its answer is 200 with the ready configurations
\* of that type and the version token (500 when the query fails).
C13_FilteredNeverLongPolls ==
    [][\A r \in Requests :
          /\ (/\ HandleStep(r)
              /\ req[r].typeFilter # ""
              /\ req[r].block \in IntegerBlocks)
             => /\ req'[r].pc = "sendReady"
                /\ subscribers' = subscribers
          /\ (QueryStep(r) /\ req[r].typeFilter # "")
             => \/ responses'[r] =
                      <<sendDeployments(getReadyDeployments(configs, blobAvailable,
                                                            req[r].typeFilter),
                                        req[r].sendETag)>>
                \/ responses'[r] = <<writeError(StatusInternalServerError)>>
      ]_vars

(***************************************************************************)
(* Claims about the block parameter (checked under Spec)                   *)
(***************************************************************************)
\* no block parameter, or one that is a non-negative integer
NonNegativeBlocks == {"", "0", "2"}

\* C14: a request whose block parameter is present and is not a non-negative
\* integer (text that is no number, or a negative integer) is answered 400 at
\* its first step, which registers no waiter and leaves the version alone.
C14_BadBlockAnswered400 ==
    [][\A r \in Requests :
          (HandleStep(r) /\ req[r].block \notin NonNegativeBlocks) =>
             /\ req'[r].pc = "done"
             /\ responses'[r] = <<writeError(StatusBadRequest)>>
             /\ subscribers' = subscribers
             /\ chan' = chan
             /\ eTag' = eTag
      ]_vars

\* What does hold: a block parameter that strconv.Atoi rejects is answered
\* 400 at the first step, with no waiter and the version unchanged, and a
\* request is answered 400 in no other case.
C14_NonIntegerBlockAnswered400 ==
    [][\A r \in Requests :
          /\ (HandleStep(r) /\ req[r].block \notin IntegerBlocks) =>
                /\ req'[r].pc = "done"
                /\ responses'[r] = <<writeError(StatusBadRequest)>>
                /\ subscribers' = subscribers
                /\ chan' = chan
                /\ eTag' = eTag
          /\ (HandleStep(r) /\ req'[r].branch = "badBlock") => req[r].block \notin IntegerBlocks
      ]_vars

(***************************************************************************)
(* Claims about GET /blob/{blobId} (checked under SpecData)                *)
(***************************************************************************)
\* C15: GET /blob/{blobId} answers 404 for an id with no recorded path, 500
\* when the lookup fails or the file cannot be read, and 200 with the bytes of
\* the recorded file otherwise.
C15_BlobOutcomesDistinguished ==
    dbResult.op = "apiReturnBlobData" =>
        LET mapped == dbResult.blobId \in Available
        IN  /\ (~dbResult.lookupErr /\ ~mapped) =>
                  dbResult.response.status = StatusNotFound
            /\ (dbResult.lookupErr \/ (mapped /\ ~dbResult.readable)) =>
                  dbResult.response.status = StatusInternalServerError
            /\ (~dbResult.lookupErr /\ mapped /\ dbResult.readable) =>
                  /\ dbResult.response.status = StatusOK
                  /\ dbResult.response.body = blobAvailable[dbResult.blobId]

\* What does hold: the answer is 200 with the bytes of the recorded file when
\* the id is mapped, the lookup succeeds and the file is readable, and the
\* same 500 error response in every other case, an unmapped id included.
C15_UnmappedBlobAnswered500 ==
    dbResult.op = "apiReturnBlobData" =>
        IF ~dbResult.lookupErr /\ dbResult.blobId \in Available /\ dbResult.readable
        THEN /\ dbResult.response.status = StatusOK
             /\ dbResult.response.body = firstPath[dbResult.blobId]
        ELSE dbResult.response = writeError(StatusInternalServerError)

GotError == {r \in Requests : delivered[r] # <<>> /\ delivered[r][1].err}

\* the error result of the settle whose goroutine was handed token tag
ErrorResult(tag) == [deployments |-> {}, err |-> TRUE, eTag |-> tag]

\* Once its goroutine has a failed query, a settle sends the error with its
\* own token once to each of its waiters, and a goroutine that has returned
\* has sent to all of them; the token is one the counter has reached and no
\* other settle has it.
ErrorSentToEveryWaiter ==
    \A t \in TaskIds :
        /\ (tasks[t].pc = "send" /\ tasks[t].err) =>
              \A s \in tasks[t].subs \ tasks[t].pending :
                  delivered[s] = <<ErrorResult(tasks[t].eTag)>>
        /\ tasks[t].pc = "done" => \A s \in tasks[t].subs : Len(delivered[s]) = 1
        /\ tasks[t].pc \in {"send", "done"} =>
              /\ TokenValue(tasks[t].eTag) \in 1 .. eTag
              /\ \A u \in TaskIds : (u # t /\ tasks[u].pc # "increment") =>
                    tasks[u].eTag # tasks[t].eTag

\* A delivery goroutine goes forward only (no retry of the query), and
\* neither the failure of its query nor its sends touch the version, which it
\* had advanced by one before the query.
NoRetryNoRollback ==
    \A t \in TaskIds :
        /\ tasks[t].pc = "increment" =>
              (tasks'[t].pc \in {"increment", "query"}
                  /\ (tasks'[t].pc = "query" => eTag' = eTag + 1))
        /\ tasks[t].pc = "query" => tasks'[t].pc \in {"query", "send", "done"}
        /\ tasks[t].pc = "send" =>
              /\ tasks'[t].pc \in {"send", "done"}
              /\ tasks'[t].pc = "send" => tasks'[t].err = tasks[t].err
        /\ (tasks[t].pc \in {"query", "send"} /\ tasks'[t] # tasks[t]) => eTag' >= eTag
        /\ tasks[t].pc = "done" => tasks'[t] = tasks[t]

\* C17 (as claimed): the error of a failed recomputation reaches every waiter
\* of the settle and each of these requests is answered 500.
C17_ErrorAnswered500ByAll ==
    /\ ErrorSentToEveryWaiter
    /\ \A r \in GotError : req[r].pc = "done" =>
            responses[r] = <<writeError(StatusInternalServerError)>>

\* C17 (amended): the error of a failed recomputation is placed once on the
\* channel of every waiter of the settle, with no retry, and the version has
\* advanced by one for the settle; each of these requests that reads the
\* result answers 500, and one whose timer fired before it read the result
\* answers 304 and leaves the error unread on its channel.
C17_ErrorDeliveredToAll ==
    /\ []ErrorSentToEveryWaiter
    /\ [][NoRetryNoRollback]_vars
    /\ [](\A r \in GotError :
            /\ Len(delivered[r]) = 1
            /\ r \in Taken /\ r \notin subscribers
            /\ req[r].pc \in {"wait", "expired", "done"}
            /\ req[r].pc = "done" =>
                  \/ /\ req[r].branch = "delivered"
                     /\ responses[r] = <<writeError(StatusInternalServerError)>>
                     /\ chan[r] = <<>>
                  \/ /\ req[r].branch = "timeout" /\ req[r].unsub = "absent"
                     /\ responses[r] = <<writeNotModified>>
                     /\ chan[r] = delivered[r])

\* C17 witness: a settle with two waiters failed; both were sent the error
\* with the settle's token, and both read it and were answered 500.
C17_Witness ==
    \E t \in TaskIds :
        /\ tasks[t].pc = "done" /\ tasks[t].subs = Requests
        /\ \A r \in Requests :
              /\ delivered[r] = <<ErrorResult(tasks[t].eTag)>>
              /\ req[r].pc = "done" /\ req[r].branch = "delivered"
              /\ responses[r] = <<writeError(StatusInternalServerError)>>

(***************************************************************************)
(* Claims about the distributor after a failed recomputation (FairSpec)    *)
(***************************************************************************)
\* The distributor loop is at its select in every state, and each case of the
\* select can run as soon as its channel has something for it: a settled
\* batch, a subscription, an unsubscription; and debounce takes change events.
LoopAccepts ==
    /\ deliverDeployments # <<>> => ENABLED LoopDeliver
    /\ \A r \in Requests : req[r].pc = "subscribe" => ENABLED LoopAdd(r)
    /\ \A r \in Requests : req[r].pc = "expired" => ENABLED TimeoutBranch(r)
    /\ (deploymentsChanged # <<>> /\ debouncePc = "select") => ENABLED DebounceReceive

\* A settle, after an error was delivered as before, hands exactly the waiters
\* registered at that time to a new delivery goroutine and empties the waiter
\* set, and that goroutine advances the version by one.
SettleTakesWaiters ==
    /\ Len(tasks') = Len(tasks) + 1 =>
          /\ tasks'[Len(tasks')].subs = subscribers
          /\ tasks'[Len(tasks')].pending = subscribers
          /\ tasks'[Len(tasks')].pc = "increment"
          /\ subscribers' = {}
    /\ \A t \in TaskIds :
          (tasks[t].pc = "increment" /\ tasks'[t].pc = "query") =>
              /\ eTag' = eTag + 1
              /\ tasks'[t].eTag = FormatInt(eTag + 1)

\* C18: after a failed recomputation (as in every state) the distributor
\* accepts settled batches, subscriptions, unsubscriptions and change events;
\* a later settle takes the waiters registered at that time and advances the
\* version; and no waiter stays in the waiter set forever.
C18_DistributorSurvivesFailure ==
    /\ []LoopAccepts
    /\ [][SettleTakesWaiters]_vars
    /\ \A r \in Requests : (r \in subscribers) ~> (r \notin subscribers)

\* C18 witness: a settle failed and its error was delivered to a waiter; a
\* later settle, with a greater version, delivered its list to a waiter that
\* registered in between, and that request was answered 200.
C18_Witness ==
    \E r \in GotError : \E q \in Requests \ GotError :
        /\ delivered[q] # <<>>
        /\ TokenValue(delivered[q][1].eTag) > TokenValue(delivered[r][1].eTag)
        /\ req[q].pc = "done" /\ req[q].branch = "delivered"
        /\ responses[q][1].status = StatusOK

(***************************************************************************)
(* Claims about the order of the tokens of immediate responses (Spec)      *)
(***************************************************************************)
\* the requests answered 200 by sendReadyDeployments
ImmediateOK ==
    {r \in Requests : /\ req[r].pc = "done"
                      /\ req[r].branch = "immediate"
                      /\ responses[r][1].status = StatusOK}

\* C19: when sendReadyDeployments writes a 200 response, its token is not less
\* than the token of any immediate 200 response written before it.
C19_ImmediateTokensNonDecreasing ==
    [][\A r \in Requests :
          (/\ QueryStep(r) /\ req[r].branch = "immediate"
           /\ responses'[r][1].status = StatusOK)
          => \A q \in ImmediateOK :
                TokenValue(responses[q][1].eTag) <= TokenValue(responses'[r][1].eTag)]_vars

\* when sendReadyDeployments reads the version, the token it reads is not less
\* than the token of any immediate 200 response written before that read
ReadsNoOlderToken ==
    \A r \in Requests :
        (req[r].pc = "sendReady" /\ req'[r].pc = "query")
        => /\ req'[r].sendETag = getETag(eTag)
           /\ \A q \in ImmediateOK :
                 TokenValue(responses[q][1].eTag) <= TokenValue(req'[r].sendETag)

\* the 200 response of sendReadyDeployments carries the token read at its start
AnswersWithTokenRead ==
    \A r \in Requests :
        (/\ QueryStep(r) /\ req[r].branch = "immediate"
         /\ responses'[r][1].status = StatusOK)
        => responses'[r][1].eTag = req[r].sendETag

\* C19 (amended): the tokens of immediate 200 responses are non-decreasing in
\* the order in which their handlers read the version: a handler that reads
\* the version after an immediate response was written answers with a token
\* not less than that response's, and no response is ahead of the version.
C19_TokensNonDecreasingInReadOrder ==
    /\ [][ReadsNoOlderToken /\ AnswersWithTokenRead]_vars
    /\ [](\A q \in ImmediateOK : TokenValue(responses[q][1].eTag) <= eTag)

\* C19 witness: two immediate 200 responses, the first request's with the
\* token of the initial version and the second's with a greater one
C19_Witness ==
    /\ {1, 2} \subseteq ImmediateOK
    /\ TokenValue(responses[1][1].eTag) < TokenValue(responses[2][1].eTag)

(***************************************************************************)
(* Claims about the type filter of getReadyDeployments (SpecData)          *)
(***************************************************************************)
\* C20: getReadyDeployments with a non-empty filter T returns exactly the
\* results of the unfiltered call whose type equals T, that is the ready rows
\* of type T and nothing else; with the empty filter it returns every ready
\* row whatever its type.
C20_FilterSelectsExactType ==
    dbResult.op = "getReadyDeployments" =>
        LET T     == dbResult.typeFilter
            all   == getReadyDeployments(configs, blobAvailable, "")
            ready == {x \in configs :
                        /\ x.bean_blob_id \in Available
                        /\ \/ x.resource_blob_id \in {"", SqlNull}
                           \/ x.resource_blob_id \in Available}
        IN  /\ T # "" => dbResult.ret = {c \in all : c.Type = T}
            /\ T # "" => {c.ID : c \in dbResult.ret} =
                            {x.id : x \in {y \in ready : y.type = T}}
            /\ T = "" => {c.ID : c \in dbResult.ret} = {x.id : x \in ready}
            /\ {c.ID : c \in all} = {x.id : x \in ready}

\* C20 witness: a filtered call returned a ready row of its type and left out
\* a ready row of another type
C20_Witness ==
    /\ dbResult.op = "getReadyDeployments" /\ dbResult.typeFilter # ""
    /\ dbResult.ret # {}
    /\ \E c \in getReadyDeployments(configs, blobAvailable, "") :
          c.Type # dbResult.typeFilter /\ c \notin dbResult.ret

(***************************************************************************)
(* Claims about the lookup of a configuration by id (SpecData)             *)
(***************************************************************************)
\* C21: getConfigById returns the stored row (no error) when a row has the id;
\* sql.ErrNoRows and no record when none has it; and for a failed query an
\* error that is not sql.ErrNoRows.  The endpoint answers 200, 404 and 500 for
\* the three outcomes.
C21_LookupDistinguishesNotFound ==
    dbResult.op = "getConfigById" =>
        LET stored == {x \in configs : x.id = dbResult.id}
        IN  /\ (~dbResult.dbFails /\ stored # {}) =>
                  /\ dbResult.ret.err = ErrNil
                  /\ dbResult.ret.config =
                        {[ID |-> x.id, BlobID |-> NullString(x.bean_blob_id),
                          BlobResourceID |-> NullString(x.resource_blob_id),
                          Type |-> x.type] : x \in stored}
                  /\ Cardinality(dbResult.ret.config) = 1
                  /\ dbResult.status = StatusOK
            /\ (~dbResult.dbFails /\ stored = {}) =>
                  /\ dbResult.ret.err = ErrNoRows
                  /\ dbResult.ret.config = {}
                  /\ dbResult.status = StatusNotFound
            /\ dbResult.dbFails =>
                  /\ dbResult.ret.err \notin {ErrNil, ErrNoRows}
                  /\ dbResult.ret.config = {}
                  /\ dbResult.status = StatusInternalServerError

\* C21 witness: the table holds a configuration, and an id that no row has was
\* looked up and answered 404
C21_Witness ==
    /\ dbResult.op = "getConfigById"
    /\ configs # {}
    /\ \A x \in configs : x.id # dbResult.id
    /\ dbResult.ret.err = ErrNoRows
    /\ dbResult.status = StatusNotFound

(***************************************************************************)
(* Claims about the debouncer (checked under Spec)                         *)
(***************************************************************************)
RECURSIVE Concat(_)
Concat(ss) == IF ss = <<>> THEN <<>> ELSE Head(ss) \o Concat(Tail(ss))

\* every recorded change event is in exactly one place, in the order recorded:
\* in the batch of a settle, in a batch waiting for the loop, in the batch
\* debounce is collecting, or in the channel
EventsInOneBatch ==
    Concat([t \in TaskIds |-> tasks[t].batch]) \o Concat(deliverDeployments)
        \o toSend \o deploymentsChanged
      = [i \in 1 .. nEvents |-> i]

\* debounce closes a batch only at a quiet window, with every event that
\* arrived before it in the batch; the loop starts one goroutine for a batch;
\* the goroutine increments the version once and queries once
OneSettlePerBatch ==
    /\ (debouncePc = "select" /\ debouncePc' = "send") =>
          deploymentsChanged = <<>> /\ toSend' = toSend /\ toSend # <<>>
    /\ deliverDeployments' # deliverDeployments /\ Len(deliverDeployments') > Len(deliverDeployments) =>
          deliverDeployments' = Append(deliverDeployments, toSend) /\ toSend' = <<>>
    /\ Len(tasks') # Len(tasks) =>
          /\ Len(tasks') = Len(tasks) + 1
          /\ deliverDeployments = <<tasks'[Len(tasks')].batch>> \o deliverDeployments'
    /\ \A t \in TaskIds :
          /\ tasks'[t].batch = tasks[t].batch
          /\ tasks[t].pc # tasks'[t].pc =>
                <<tasks[t].pc, tasks'[t].pc>> \in
                    {<<"increment", "query">>, <<"query", "send">>,
                     <<"query", "done">>, <<"send", "done">>}

\* C22: change events with no quiet window between them are coalesced into
\* one batch, and a batch causes exactly one settle: one delivery goroutine,
\* one version increment and one recomputation, however many events it holds.
C22_BurstCausesOneSettle ==
    /\ []EventsInOneBatch
    /\ [](eTag = Cardinality({t \in TaskIds : tasks[t].pc # "increment"}))
    /\ [][OneSettlePerBatch]_vars

\* C22 witness: two events were recorded, coalesced into one batch, and that
\* batch was settled once: one goroutine, which has finished, and version 1
C22_Witness ==
    /\ nEvents = 2 /\ deploymentsChanged = <<>> /\ toSend = <<>>
    /\ deliverDeployments = <<>>
    /\ Len(tasks) = 1 /\ Len(tasks[1].batch) = 2 /\ tasks[1].pc = "done"
    /\ eTag = 1

\* the events of the batches that were settled and whose goroutine has
\* incremented the version
SettledEvents ==
    {Concat([t \in TaskIds |-> IF tasks[t].pc # "increment" THEN tasks[t].batch ELSE <<>>])[i] :
        i \in 1 .. Len(Concat([t \in TaskIds |->
                                 IF tasks[t].pc # "increment" THEN tasks[t].batch ELSE <<>>]))}

\* C23: the settle of the events debounce has collected cannot be postponed
\* by further events: whenever debounce is at its select with a batch, it can
\* close the batch and send it, whether or not another event is waiting (the
\* hard cap on the wait).
C23_ChurnCannotPostponeSettle ==
    (debouncePc = "select" /\ toSend # <<>>) => ENABLED DebounceWindow

\* when the events stop arriving, every recorded event is eventually settled:
\* it is in the batch of a goroutine that has incremented the version
C23_QuietEventsSettled ==
    \A k \in 1 .. MaxEvents : (nEvents >= k) ~> (k \in SettledEvents)

(***************************************************************************)
(* Claims about blocking in the distributor (checked under Spec)           *)
(***************************************************************************)
\* the settles whose goroutine has not finished
InFlight == {t \in TaskIds : tasks[t].pc # "done"}

\* every write a delivery goroutine has still to make can be made at once: the
\* channel of each waiter it has not yet written to has its slot free
WritesNeverBlock ==
    \A t \in TaskIds : tasks[t].pc = "send" =>
        \A s \in tasks[t].pending : ENABLED TaskSend(t, s)

\* a channel is written at most once in its lifetime, and only by the one
\* goroutine that took it
WrittenAtMostOnce ==
    /\ \A r \in Requests : Len(delivered[r]) <= 1
    /\ \A t \in TaskIds : \A u \in TaskIds : t # u => tasks[t].subs \cap tasks[u].subs = {}
    /\ \A t \in TaskIds : tasks[t].subs \cap subscribers = {}

\* C24: the loop is never stalled by recomputation or delivery: with
\* goroutines in flight it accepts a settled batch, a subscription and an
\* unsubscription as soon as one is offered, and every write to a waiter's
\* channel can complete at once, the channel being written at most once, also
\* when its reader has timed out.
C24_LoopNeverStalled ==
    /\ (InFlight # {} => LoopAccepts)
    /\ WritesNeverBlock
    /\ WrittenAtMostOnce

\* C24 witness: a goroutine wrote to the channel of a request that had timed
\* out and answered 304 (the result stays unread in the slot), while another
\* settle's goroutine is in flight
C24_Witness ==
    \E r \in Requests :
        /\ req[r].pc = "done" /\ req[r].branch = "timeout"
        /\ Len(chan[r]) = 1
        /\ \E t \in InFlight : r \notin tasks[t].subs

(***************************************************************************)
(* Claims about unsubscription (checked under Spec)                        *)
(***************************************************************************)
\* the timeout case of request r runs: removeSubscriber <- channel, met by the
\* loop's delete, then the answer
UnsubscribeStep(r) == req[r].pc = "expired" /\ req'[r].branch = "timeout"

\* the unsubscription of a waiter that is not in the waiter set changes
\* nothing but the request itself, which goes on to its answer: 304 for a
\* request with a token, never an error
AbsentUnsubscribeIsNoOp ==
    \A r \in Requests :
        (UnsubscribeStep(r) /\ r \notin subscribers) =>
            /\ subscribers' = subscribers
            /\ eTag' = eTag
            /\ tasks' = tasks /\ chan' = chan /\ delivered' = delivered
            /\ deliverDeployments' = deliverDeployments
            /\ \A q \in Requests \ {r} : req'[q] = req[q] /\ responses'[q] = responses[q]
            /\ req'[r].unsub = "absent"
            /\ \/ req'[r].pc = "done" /\ responses'[r] = <<writeNotModified>>
               \/ req'[r].pc = "sendReady" /\ responses'[r] = <<>>

\* C25: unsubscribing a waiter that a settle has already taken, or that was
\* never registered, is a no-op: the caller is never held back (the loop takes
\* the unsubscription as soon as it is offered), gets no error, and the
\* version, the waiter set and every other request are unchanged.
C25_AbsentUnsubscribeNoOp ==
    /\ [][AbsentUnsubscribeIsNoOp]_vars
    /\ [](\A r \in Requests : req[r].pc = "expired" => ENABLED TimeoutBranch(r))

\* C25 witness: a waiter that a settle had taken unsubscribed while another
\* waiter was registered, which still is
C25_Witness ==
    \E r \in Requests :
        /\ req[r].branch = "timeout" /\ req[r].unsub = "absent"
        /\ delivered[r] # <<>>
        /\ subscribers # {}

\* a request that never made a channel has taken the timeout case
C25_WitnessNeverRegistered ==
    \E r \in Requests :
        /\ req[r].branch = "timeout" /\ req[r].unsub = "absent"
        /\ delivered[r] = <<>> /\ r \notin Taken

\* the requests whose handler is blocked in its select
Blocked == {r \in Requests : req[r].pc \in {"wait", "expired"}}

\* C26: the waiter set only holds waiters of requests that are still blocked
\* and have written nothing; the step by which a request leaves its select,
\* by timeout or by delivery, leaves it out of the waiter set; so once every
\* request received has responded, the waiter set is empty.
C26_WaitersAreBlockedRequests ==
    /\ [](subscribers \subseteq {r \in Blocked : responses[r] = <<>>})
    /\ []((\A r \in Requests : req[r].pc \in {"idle", "done"}) => subscribers = {})
    /\ [][\A r \in Requests :
            (r \in Blocked /\ req'[r].pc \notin {"wait", "expired"})
                => r \notin subscribers']_vars

\* C26 witness: every request has responded, one of them by the timeout case
\* while it was still registered, and the waiter set is empty
C26_Witness ==
    /\ \A r \in Requests : req[r].pc = "done"
    /\ \E r \in Requests : req[r].branch = "timeout" /\ req[r].unsub = "removed"
    /\ subscribers = {}

(***************************************************************************)
(* Claims about the monotonicity of the resolver (SpecData)                *)
(***************************************************************************)
\* the restriction of the table apid_blob_available to the ids in S
Restrict(table, S) == [x \in S |-> table[x]]

\* recording a blob never adds an id to the unready set and never removes a
\* configuration from the ready set
RecordingOnlyShrinksUnready ==
    /\ getUnreadyBlobs(configs, blobAvailable') \subseteq getUnreadyBlobs(configs, blobAvailable)
    /\ getReadyDeployments(configs, blobAvailable, "")
          \subseteq getReadyDeployments(configs, blobAvailable', "")
    /\ DOMAIN blobAvailable \subseteq DOMAIN blobAvailable'
    /\ configs' = configs

\* C27: for fixed configurations the unready blob set is antitone and the
\* ready set monotone in availability: under every table whose ids are a
\* subset of the recorded ones the unready set is a superset and the ready set
\* a subset of the present ones, and every updateLocalFsLocation keeps it so.
C27_UnreadyMonotoneInAvailability ==
    /\ [](\A S \in SUBSET (DOMAIN blobAvailable) :
            /\ getUnreadyBlobs(configs, blobAvailable)
                  \subseteq getUnreadyBlobs(configs, Restrict(blobAvailable, S))
            /\ getReadyDeployments(configs, Restrict(blobAvailable, S), "")
                  \subseteq getReadyDeployments(configs, blobAvailable, ""))
    /\ [][RecordingOnlyShrinksUnready]_vars

\* C27 witness: a blob was recorded, which took it out of the unready set and
\* made a configuration ready, while another blob is still unready
C27_Witness ==
    /\ dbResult.op = "updateLocalFsLocation"
    /\ dbResult.blobId \in getUnreadyBlobs(configs, EmptyTable)
    /\ dbResult.blobId \notin getUnreadyBlobs(configs, blobAvailable)
    /\ getUnreadyBlobs(configs, blobAvailable) # {}
    /\ getReadyDeployments(configs, blobAvailable, "") # {}
    /\ getReadyDeployments(configs, EmptyTable, "") = {}

(***************************************************************************)
(* Claims about 304 and the version at the time of the answer (Spec)       *)
(***************************************************************************)
\* request r writes 304 Not Modified
Writes304(r) ==
    /\ responses'[r] # responses[r]
    /\ responses'[r][Len(responses'[r])].status = StatusNotModified

\* C28: a 304 is only written when the token the client presented equals the
\* current version at the step that writes it.
C28_NotModifiedMeansCurrent ==
    [][\A r \in Requests : Writes304(r) => req[r].ifNoneMatch = getETag(eTag)]_vars

\* the particular case of C28: a waiter that is still registered when its
\* timeout case runs (no settle took it) presented the current version
C28_RegisteredAtTimeoutIsCurrent ==
    [][\A r \in Requests :
          (UnsubscribeStep(r) /\ r \in subscribers) => req[r].ifNoneMatch = getETag(eTag)]_vars

(***************************************************************************)
(* Claims about the freshness of a snapshot (checked under Spec)           *)
(***************************************************************************)
\* the ids of the configurations that are ready with the blobs that had been
\* recorded when settle t was received
ReadyAtSettle(t) ==
    {c.ID : c \in getReadyDeployments(configs, Restrict(blobAvailable, tasks[t].avail), "")}

\* response resp is not staler than any settle that produced a version up to
\* the one it carries
NotStalerThanItsToken(resp) ==
    \A t \in TaskIds :
        (tasks[t].eTag # "" /\ TokenValue(resp.eTag) >= TokenValue(tasks[t].eTag))
            => ReadyAtSettle(t) \subseteq {c.ID : c \in resp.deployments}

C29_ImmediateSnapshotNotStale ==
    \A r \in ImmediateOK : NotStalerThanItsToken(responses[r][1])

TakesNextVersion ==
    \A t \in TaskIds :
        (tasks[t].pc = "increment" /\ tasks'[t].pc = "query") =>
            /\ tasks'[t].eTag = FormatInt(eTag + 1) /\ eTag' = eTag + 1
            /\ \A u \in Incremented : TokenValue(tasks[u].eTag) <= eTag

RequestActs ==
    \/ req' # req
    \/ responses' # responses
    \/ (subscribers' # subscribers /\ Len(tasks') = Len(tasks))

\* the version changes only at the incrementETag of a settle's goroutine, by
\* one; the blob table only when a download completes; no request step
\* changes either
OnlySettleChangesVersion ==
    /\ eTag' # eTag =>
          /\ eTag' = eTag + 1
          /\ \E t \in TaskIds : tasks[t].pc = "increment" /\ tasks'[t].pc = "query"
          /\ ~RequestActs
    /\ blobAvailable' # blobAvailable => (nEvents' = nEvents + 1 /\ ~RequestActs)
    /\ RequestActs => (eTag' = eTag /\ blobAvailable' = blobAvailable /\ tasks' = tasks)

\* every settle has a batch with at least one change event, each recorded
\* after the events of the settles before it
EverySettleHasNewEvents ==
    \A t \in TaskIds :
        /\ tasks[t].batch # <<>>
        /\ \A u \in TaskIds : u < t =>
              \A i \in 1 .. Len(tasks[u].batch) : \A j \in 1 .. Len(tasks[t].batch) :
                  tasks[u].batch[i] < tasks[t].batch[j]

\* C31: no step of a GET /configurations or GET /blob request, and no
\* subscription or unsubscription, changes the version or the blob table; the
\* version changes only by the increment of a settle, and every settle has at
\* least one change event recorded since the settle before it.
C31_VersionChangesOnlyBySettle ==
    /\ [][OnlySettleChangesVersion]_vars
    /\ []EverySettleHasNewEvents
    /\ [](eTag <= Len(tasks) /\ Len(tasks) <= nEvents)

\* C31 witness: after a settle (version 1), a blob request has been answered
\* 200 and a GET /configurations has timed out, the version still being 1
C31_Witness ==
    /\ eTag = 1 /\ Len(tasks) = 1
    /\ \E r \in Requests : \E q \in Requests :
          /\ req[r].branch = "blob" /\ responses[r][1].status = StatusOK
          /\ req[q].branch = "timeout" /\ req[q].pc = "done"

(***************************************************************************)
(* Claims about the agreement of the two resolver queries (SpecData)       *)
(***************************************************************************)
\* a blob id column that names a blob: neither NULL nor ''
NonEmpty(v) == ~IsNull(v) /\ v # ""

\* row x is in the ready set exactly when none of the blobs it names is in
\* the unready blob set
QueriesAgreeOn(x) ==
    LET U == getUnreadyBlobs(configs, blobAvailable)
        R == {c.ID : c \in getReadyDeployments(configs, blobAvailable, "")}
    IN  x.id \in R <=>
            /\ x.bean_blob_id \notin U
            /\ NonEmpty(x.resource_blob_id) => x.resource_blob_id \notin U

\* C32: over the same configurations and availability, a configuration with
\* a non-empty bean blob id is in the result of getReadyDeployments if and
\* only if neither its bean blob id nor its non-empty resource blob id is in
\* the result of getUnreadyBlobs.
C32_ReadyIffNoBlobUnready ==
    /\ dbResult.op = "getUnreadyBlobs" =>
          dbResult.ret = getUnreadyBlobs(configs, blobAvailable)
    /\ (dbResult.op = "getReadyDeployments" /\ dbResult.typeFilter = "") =>
          dbResult.ret = getReadyDeployments(configs, blobAvailable, "")
    /\ \A x \in configs : NonEmpty(x.bean_blob_id) => QueriesAgreeOn(x)

\* without the restriction to a non-empty bean blob id the queries disagree
C32_AgreeForEveryRow == \A x \in configs : QueriesAgreeOn(x)

\* C32 witness: getUnreadyBlobs returned the resource blob of a configuration
\* whose bean blob is recorded, which is therefore not ready, while another
\* configuration is ready
C32_Witness ==
    /\ dbResult.op = "getUnreadyBlobs"
    /\ \E x \in configs :
          /\ x.bean_blob_id \in Available
          /\ x.resource_blob_id \in dbResult.ret
          /\ x.id \notin {c.ID : c \in getReadyDeployments(configs, blobAvailable, "")}
    /\ getReadyDeployments(configs, blobAvailable, "") # {}

(***************************************************************************)
(* Claims about debounce with an input that may be closed (SpecDebounce)   *)
(***************************************************************************)
\* the batches debounce has emitted: those the loop took, then those waiting
Emitted == [t \in TaskIds |-> tasks[t].batch] \o deliverDeployments

\* the events debounce has received and not emitted
Pending == IF debouncePc = "closed" THEN <<>> ELSE toSend

\* the events still buffered in the input
Buffered == SelectSeq(deploymentsChanged, LAMBDA e : e # Closed)

\* no event is lost or duplicated, the order is kept, no batch is empty, and
\* once the output is closed every event sent is in an emitted batch
NoEventLostOrDuplicated ==
    /\ Concat(Emitted) \o Pending \o Buffered = [i \in 1 .. nEvents |-> i]
    /\ \A i \in 1 .. Len(Emitted) : Emitted[i] # <<>>
    /\ debouncePc = "closed" => Concat(Emitted) = [i \in 1 .. nEvents |-> i]
    /\ debouncePc = "flush" => toSend # <<>>

\* a window with nothing pending emits nothing; the only emissions are of the
\* pending events as one batch; the output is closed only after the input,
\* with the pending events emitted as the last batch; nothing follows it
EmitsOnlyPendingBatches ==
    /\ (debouncePc = "select" /\ deploymentsChanged = <<>> /\ toSend = <<>>) =>
          (Emitted' = Emitted /\ Len(deliverDeployments') <= Len(deliverDeployments))
    /\ Len(Emitted') > Len(Emitted) =>
          /\ toSend # <<>>
          /\ Emitted' = Append(Emitted, toSend)
          /\ Pending' = <<>>
    /\ (debouncePc' = "closed" /\ debouncePc # "closed") =>
          /\ deploymentsChanged = <<Closed>>
          /\ IF toSend = <<>> THEN Emitted' = Emitted
                              ELSE Emitted' = Append(Emitted, toSend)
    /\ debouncePc = "closed" => (debouncePc' = "closed" /\ Emitted' = Emitted)

\* C33: the debouncer loses and duplicates no event and emits no empty batch:
\* every event received on its input is in exactly one emitted batch, in
\* arrival order; a window that elapses with no pending event emits nothing;
\* and when the input is closed the pending events are flushed as a last
\* batch before the output is closed.
C33_DebounceLosesNothing ==
    /\ []NoEventLostOrDuplicated
    /\ [][EmitsOnlyPendingBatches]_vars

\* C33 witness: two events were sent and the input closed; debounce emitted the
\* first at a quiet window and flushed the second as the last batch on close
C33_Witness ==
    /\ nEvents = 2 /\ debouncePc = "closed"
    /\ Emitted = << <<1>>, <<2>> >>

(***************************************************************************)
(* Claims about initDb (SpecData)                                          *)
(***************************************************************************)
\* a call of initDb on the initialised database leaves every row of
\* apid_blob_available as it was, and succeeds unless the database fails
InitDbKeepsRows ==
    dbResult'.op = "initDb" =>
        /\ blobAvailable' = blobAvailable
        /\ \A b \in DOMAIN blobAvailable :
              b \in DOMAIN blobAvailable' /\ blobAvailable'[b] = blobAvailable[b]
        /\ ~dbResult'.dbFails => dbResult'.err = ErrNil

\* C34: initDb is idempotent: calling it again on an initialised database
\* succeeds and leaves the rows of apid_blob_available (every recorded blob
\* id and path) unchanged.
C34_InitDbIdempotent == [][InitDbKeepsRows]_vars

\* C34 witness: initDb was called on a database with both blobs recorded and
\* succeeded, and both rows are still there
C34_Witness ==
    /\ dbResult.op = "initDb" /\ ~dbResult.dbFails /\ dbResult.err = ErrNil
    /\ DOMAIN blobAvailable = DataBlobIds

====
